---- MODULE Spec2Model ----
(***************************************************************************)
(* Model of src/main.py: the Flask handlers of the loyalty-card wallet     *)
(* and the rows they read and write through SQLAlchemy.                    *)
(*                                                                         *)
(* Money is counted in hundredths of the currency unit (20.0 is 2000), a   *)
(* commission rate in thousandths (0.02 is 20); float arithmetic on these  *)
(* values is modelled as exact arithmetic, plus the one float that is not  *)
(* a number (NaN), which float() accepts from the request body.            *)
(*                                                                         *)
(* Each worker thread owns one SQLAlchemy session (scoped_session, never   *)
(* removed): the rows a handler loaded are a snapshot taken by its SELECT, *)
(* db.commit() UPDATEs the attributes the handler changed and INSERTs the  *)
(* new rows in one database transaction, and a handler that raises leaves  *)
(* its changed rows in the thread's session until the next db.close() or   *)
(* db.commit() on that thread.  A handler is split where it queries or     *)
(* commits, so that the requests of two threads interleave.                *)
(*                                                                         *)
(* The database is the one DATABASE_URL names by default (SQLite) and it   *)
(* outlives the process, so Init ranges over stored account rows; the      *)
(* ledger holds the entries appended since Init and `start` the balance    *)
(* each account had at Init or at registration.                            *)
(***************************************************************************)
EXTENDS Integers, Sequences, FiniteSets, TLC

\* ------------------------------------------------------------------ bounds
\* transfer requests that pass validation
MaxTransfers == 2
\* size of the range generate_card_number() draws from
NumCards == 3

\* --------------------------------------------------------------- constants
START_BALANCE == 2000
COMMISSION_SILVER == 20
COMMISSION_GOLD == 15
COMMISSION_PLATINUM == 10
GOLD_POINTS == 200
PLATINUM_POINTS == 1000
POINT_STEP == 5000
NaN == -999999999

None == "none"
Usernames == {"a", "b", "c"}
\* the server's worker threads, and the clients that hold a session cookie
Workers == {"t1", "t2"}
Clients == {"k1"}
CardNumbers == 1..NumCards

\* request bodies: the amount field as sent, before float()
Num(v) == [kind |-> "num", v |-> v]
AmountInputs ==
    { Num(5000), Num(10000), Num(0),
      [kind |-> "nan", v |-> 0], [kind |-> "bad", v |-> 0] }
LoginNames == {"a", "c", ""}

\* --------------------------------------------------------- float arithmetic
IsNaN(x) == x = NaN
FAdd(x, y) == IF IsNaN(x) \/ IsNaN(y) THEN NaN ELSE x + y
FSub(x, y) == IF IsNaN(x) \/ IsNaN(y) THEN NaN ELSE x - y
FLt(x, y) == ~IsNaN(x) /\ ~IsNaN(y) /\ x < y
FLe(x, y) == ~IsNaN(x) /\ ~IsNaN(y) /\ x <= y
\* the default engine (SQLite) stores a NaN as NULL, which loads as None
IsNull(x) == x = NaN
\* SQLAlchemy marks an attribute changed when new == old is false
FEq(x, y) == ~IsNaN(x) /\ ~IsNaN(y) /\ x = y

\* round(n / d) to the nearest integer, ties to even
RoundHalfEven(n, d) ==
    LET q == n \div d
        r == n % d
    IN  IF 2 * r < d THEN q
        ELSE IF 2 * r > d THEN q + 1
        ELSE IF q % 2 = 0 THEN q ELSE q + 1

\* round(amount * rate, 2)
round2(amount, rate) ==
    IF IsNaN(amount) THEN NaN ELSE RoundHalfEven(amount * rate, 1000)

\* int(amount // 50), defined for numbers only
floor_points(amount) == amount \div POINT_STEP

commission_for_level(level) ==
    IF level = "Gold" THEN COMMISSION_GOLD
    ELSE IF level = "Platinum" THEN COMMISSION_PLATINUM
    ELSE COMMISSION_SILVER

recalc_level(pts) ==
    IF pts >= PLATINUM_POINTS THEN "Platinum"
    ELSE IF pts >= GOLD_POINTS THEN "Gold"
    ELSE "Silver"

\* float(amount): a number or NaN; ValueError/TypeError when it does not parse
Parses(raw) == raw.kind # "bad"
ParseAmount(raw) == IF raw.kind = "nan" THEN NaN ELSE raw.v

\* ------------------------------------------------------------------- state
VARIABLES
    users,     \* table users: username -> row
    cards,     \* table cards: number -> owner (number is UNIQUE)
    ledger,    \* table transactions, in insertion order
    cookie,    \* Flask session of each client: user_id or None
    pc,        \* position of each worker thread in its handler
    req,       \* the handler's local variables
    dirty,     \* rows changed in the thread's session and not yet flushed
    start,     \* starting balance of each account
    started    \* number of transfers that passed validation

vars == <<users, cards, ledger, cookie, pc, req, dirty, start, started>>

NoReq == [op |-> "none"]

\* a row of users; avatar_url and bio, which only api_profile writes and no
\* handler reads to decide anything, are not carried
User(balance, points, level) ==
    [balance |-> balance, points |-> points, level |-> level]

\* rows an earlier run of the program may have left for account "a"
InitRows ==
    { User(10200, 198, "Silver"),
      User(10150, 998, "Gold") }

Init ==
    /\ \E ra \in InitRows :
         users = ("a" :> ra) @@ ("b" :> User(START_BALANCE, 0, "Silver"))
    /\ cards = (1 :> "a") @@ (2 :> "b")
    /\ ledger = << >>
    /\ cookie = [k \in Clients |-> None]
    /\ pc = [w \in Workers |-> "idle"]
    /\ req = [w \in Workers |-> NoReq]
    /\ dirty = [w \in Workers |-> {}]
    /\ start = [u \in DOMAIN users |-> users[u].balance]
    /\ started = 0

\* ------------------------------------------------------------ the session
Write(u, attr, val) == [u |-> u, attr |-> attr, val |-> val]

\* the row of u after the UPDATEs of a flush
ApplyRow(row, u, ws) ==
    [attr \in DOMAIN row |->
        IF \E x \in ws : x.u = u /\ x.attr = attr
        THEN (CHOOSE x \in ws : x.u = u /\ x.attr = attr).val
        ELSE row[attr]]

Flush(tbl, ws) == [u \in DOMAIN tbl |-> ApplyRow(tbl[u], u, ws)]

\* the handler returns its response (or raises): the thread is free again
Return(w) ==
    /\ pc' = [pc EXCEPT ![w] = "idle"]
    /\ req' = [req EXCEPT ![w] = NoReq]

\* db.close(): the session forgets its rows
Close(w) == dirty' = [dirty EXCEPT ![w] = {}]

\* ---------------------------------------------------------------- transfer
\* api_transfer up to the sender query: authorisation, amount validation
api_transfer(w, k, to, raw) ==
    /\ pc[w] = "idle"
    /\ UNCHANGED <<users, cards, ledger, cookie, start>>
    /\ IF cookie[k] = None
       THEN /\ Return(w)
            /\ UNCHANGED <<dirty, started>>
       ELSE /\ Close(w)
            /\ IF ~Parses(raw) \/ FLe(ParseAmount(raw), 0)
               THEN Return(w) /\ UNCHANGED started
               ELSE /\ started < MaxTransfers
                    /\ started' = started + 1
                    /\ pc' = [pc EXCEPT ![w] = "transfer_receiver"]
                    /\ req' = [req EXCEPT ![w] =
                                 [op |-> "transfer",
                                  sender |-> cookie[k],
                                  to |-> to,
                                  amount |-> ParseAmount(raw),
                                  row |-> users[cookie[k]]]]

\* the rows the commit of a transfer updates: only changed attributes
TransferWrites(r, rbal) ==
    LET amount == r.amount
        commission == round2(amount, commission_for_level(r.row.level))
        total == FAdd(amount, commission)
        debited == FSub(r.row.balance, total)
        points == r.row.points + floor_points(amount)
        level == recalc_level(points)
        self == r.to = r.sender
    IN  (IF self
         THEN IF FEq(FAdd(debited, amount), r.row.balance) THEN {}
              ELSE {Write(r.sender, "balance", FAdd(debited, amount))}
         ELSE (IF FEq(debited, r.row.balance) THEN {}
               ELSE {Write(r.sender, "balance", debited)})
              \cup
              (IF FEq(FAdd(rbal, amount), rbal) THEN {}
               ELSE {Write(r.to, "balance", FAdd(rbal, amount))}))
        \cup (IF points = r.row.points THEN {}
              ELSE {Write(r.sender, "points", points)})
        \cup (IF level = r.row.level THEN {}
              ELSE {Write(r.sender, "level", level)})

\* api_transfer from the receiver query to the commit
transfer_receiver(w) ==
    LET r == req[w]
        found == r.to \in DOMAIN users
        self == r.to = r.sender
        rbal == IF self THEN r.row.balance
                ELSE IF found THEN users[r.to].balance ELSE 0
        amount == r.amount
        commission == round2(amount, commission_for_level(r.row.level))
        total == FAdd(amount, commission)
        debited == FSub(r.row.balance, total)
    IN  /\ pc[w] = "transfer_receiver"
        /\ UNCHANGED <<users, cards, ledger, cookie, start, started>>
        /\ IF ~found
           THEN /\ Return(w)
                /\ Close(w)
           ELSE IF IsNull(r.row.balance)
           THEN /\ Return(w)
                /\ UNCHANGED dirty
           ELSE IF FLt(r.row.balance, total)
           THEN /\ Return(w)
                /\ Close(w)
           ELSE IF IsNull(rbal)
           THEN /\ Return(w)
                /\ dirty' = [dirty EXCEPT ![w] =
                               {Write(r.sender, "balance", debited)}]
           ELSE IF IsNaN(amount)
           THEN /\ Return(w)
                /\ dirty' = [dirty EXCEPT ![w] =
                               {Write(r.sender, "balance", NaN),
                                Write(r.to, "balance", NaN)}]
           ELSE /\ pc' = [pc EXCEPT ![w] = "transfer_commit"]
                /\ req' = [req EXCEPT ![w] =
                             [op |-> "commit",
                              sender |-> r.sender,
                              to |-> r.to,
                              amount |-> amount,
                              commission |-> commission,
                              earned_points |-> floor_points(amount),
                              writes |-> TransferWrites(r, rbal)]]
                /\ UNCHANGED dirty

\* a row that names its own owner as the counterparty
TransactionUnswapped(user, amount, commission, direction, other) ==
    [user |-> user, amount |-> amount, commission |-> commission,
     direction |-> direction, other_user |-> user]

Transaction(user, amount, commission, direction, other) ==
    [user |-> user, amount |-> amount, commission |-> commission,
     direction |-> direction, other_user |-> other]

\* db.commit(): the UPDATEs and the two INSERTs, in one database transaction
transfer_commit(w) ==
    LET r == req[w]
    IN  /\ pc[w] = "transfer_commit"
        /\ users' = Flush(users, r.writes)
        /\ ledger' = ledger \o
              << Transaction(r.sender, r.amount, r.commission, "outgoing", r.to),
                 Transaction(r.to, r.amount, 0, "incoming", r.sender) >>
        /\ Return(w)
        /\ Close(w)
        /\ UNCHANGED <<cards, cookie, start, started>>

\* ---------------------------------------------------------------- register
\* api_register up to the username query
api_register(w, k, name) ==
    /\ pc[w] = "idle"
    /\ UNCHANGED <<users, cards, ledger, cookie, start, started>>
    /\ IF name = ""
       THEN /\ Return(w)
            /\ UNCHANGED dirty
       ELSE IF name \in DOMAIN users
       THEN /\ Return(w)
            /\ Close(w)
       ELSE /\ pc' = [pc EXCEPT ![w] = "register_user"]
            /\ req' = [req EXCEPT ![w] = [op |-> "register", k |-> k, name |-> name]]
            /\ UNCHANGED dirty

\* db.add(user); db.commit(): flushes every changed row of the session
register_user(w) ==
    LET r == req[w]
    IN  /\ pc[w] = "register_user"
        /\ UNCHANGED <<cards, ledger, cookie, started>>
        /\ IF r.name \in DOMAIN users
           THEN /\ Return(w)
                /\ Close(w)
                /\ UNCHANGED <<users, start>>
           ELSE /\ users' = Flush(users, dirty[w])
                              @@ (r.name :> User(START_BALANCE, 0, "Silver"))
                /\ start' = start @@ (r.name :> START_BALANCE)
                /\ Close(w)
                /\ pc' = [pc EXCEPT ![w] = "register_card"]
                /\ UNCHANGED req

\* the number generate_card_number() draws
generate_card_number == CardNumbers

\* db.add(card); db.commit(): cards.number is UNIQUE
register_card(w) ==
    LET r == req[w]
    IN  /\ pc[w] = "register_card"
        /\ UNCHANGED <<users, ledger, start, started>>
        /\ \E number \in generate_card_number :
             IF number \in DOMAIN cards
             THEN /\ Return(w)
                  /\ UNCHANGED <<cards, cookie, dirty>>
             ELSE /\ cards' = cards @@ (number :> r.name)
                  /\ cookie' = [cookie EXCEPT ![r.k] = r.name]
                  /\ Return(w)
                  /\ Close(w)

\* ------------------------------------------------------- the other handlers
api_login(w, k, name, verified) ==
    /\ pc[w] = "idle"
    /\ UNCHANGED <<users, cards, ledger, start, started>>
    /\ IF name = ""
       THEN /\ Return(w)
            /\ UNCHANGED <<cookie, dirty>>
       ELSE IF name \notin DOMAIN users \/ ~verified
       THEN /\ Return(w)
            /\ Close(w)
            /\ UNCHANGED cookie
       ELSE /\ cookie' = [cookie EXCEPT ![k] = name]
            /\ Return(w)
            /\ Close(w)

api_logout(w, k) ==
    /\ pc[w] = "idle"
    /\ cookie' = [cookie EXCEPT ![k] = None]
    /\ Return(w)
    /\ UNCHANGED <<users, cards, ledger, start, started, dirty>>

CardsOf(u) == {n \in DOMAIN cards : cards[n] = u}

api_me(w, k) ==
    /\ pc[w] = "idle"
    /\ UNCHANGED <<users, cards, ledger, cookie, start, started>>
    /\ Return(w)
    /\ IF cookie[k] = None THEN UNCHANGED dirty ELSE Close(w)

\* commits avatar_url and bio of the current user's row
api_profile(w, k) ==
    /\ pc[w] = "idle"
    /\ UNCHANGED <<users, cards, ledger, cookie, start, started>>
    /\ Return(w)
    /\ IF cookie[k] = None THEN UNCHANGED dirty ELSE Close(w)

api_partners(w) ==
    /\ pc[w] = "idle"
    /\ UNCHANGED <<users, cards, ledger, cookie, start, started>>
    /\ Return(w)
    /\ Close(w)

api_history(w, k) ==
    /\ pc[w] = "idle"
    /\ UNCHANGED <<users, cards, ledger, cookie, start, started>>
    /\ Return(w)
    /\ IF cookie[k] = None THEN UNCHANGED dirty ELSE Close(w)

api_card(w, number) ==
    /\ pc[w] = "idle"
    /\ UNCHANGED <<users, cards, ledger, cookie, start, started>>
    /\ Return(w)
    /\ Close(w)

Next ==
    \/ \E w \in Workers, k \in Clients, to \in Usernames, raw \in AmountInputs :
          api_transfer(w, k, to, raw)
    \/ \E w \in Workers : transfer_receiver(w)
    \/ \E w \in Workers : transfer_commit(w)
    \/ \E w \in Workers, k \in Clients, name \in Usernames \cup {""} :
          api_register(w, k, name)
    \/ \E w \in Workers : register_user(w)
    \/ \E w \in Workers : register_card(w)
    \/ \E w \in Workers, k \in Clients, name \in LoginNames,
          verified \in BOOLEAN : api_login(w, k, name, verified)
    \/ \E w \in Workers, k \in Clients : api_logout(w, k)
    \/ \E w \in Workers, k \in Clients : api_me(w, k)
    \/ \E w \in Workers, k \in Clients : api_profile(w, k)
    \/ \E w \in Workers : api_partners(w)
    \/ \E w \in Workers, k \in Clients : api_history(w, k)
    \/ \E w \in Workers, number \in CardNumbers : api_card(w, number)

Spec == Init /\ [][Next]_vars

\* ------------------------------------------------------------------ claims
RECURSIVE SeqSum(_)
SeqSum(s) == IF s = << >> THEN 0 ELSE Head(s) + SeqSum(Tail(s))

RECURSIVE SetSum(_, _)
SetSum(f, S) ==
    IF S = {} THEN 0
    ELSE LET x == CHOOSE y \in S : TRUE IN f[x] + SetSum(f, S \ {x})

\* what the ledger says account u paid, and received
Debits(u) ==
    SeqSum([i \in 1..Len(ledger) |->
              IF ledger[i].user = u /\ ledger[i].direction = "outgoing"
              THEN ledger[i].amount + ledger[i].commission ELSE 0])
Credits(u) ==
    SeqSum([i \in 1..Len(ledger) |->
              IF ledger[i].user = u /\ ledger[i].direction = "incoming"
              THEN ledger[i].amount ELSE 0])
Commissions ==
    SeqSum([i \in 1..Len(ledger) |->
              IF ledger[i].direction = "outgoing" THEN ledger[i].commission ELSE 0])
Balances == [u \in DOMAIN users |-> users[u].balance]
AllNumbers == \A u \in DOMAIN users : ~IsNaN(users[u].balance)

\* the step in which worker w commits its transfer
CommitStep(w) == pc[w] = "transfer_commit" /\ pc'[w] = "idle"

Rank(level) == IF level = "Platinum" THEN 2 ELSE IF level = "Gold" THEN 1 ELSE 0

\* C1: a committed transfer of amount a from S to a different account R lowers
\* S's balance by exactly a + round(a * rate, 2), rate being that of S's tier
\* before the transfer, raises R's balance by exactly a, and changes no other
\* balance.
C1_TransferDeltas ==
    [][\A w \in Workers :
         (CommitStep(w) /\ req[w].sender # req[w].to) =>
            LET r == req[w]
                c == round2(r.amount, commission_for_level(users[r.sender].level))
            IN  /\ users'[r.sender].balance
                     = FSub(users[r.sender].balance, FAdd(r.amount, c))
                /\ users'[r.to].balance = FAdd(users[r.to].balance, r.amount)
                /\ \A u \in DOMAIN users \ {r.sender, r.to} :
                      users'[u].balance = users[u].balance]_vars

\* C2: under any interleaving no balance is negative and no account spends
\* more than it had: what the ledger debits to an account never exceeds its
\* starting balance plus what the ledger credits to it.
C2_NoDoubleSpend ==
    \A u \in DOMAIN users :
       /\ ~FLt(users[u].balance, 0)
       /\ Debits(u) <= start[u] + Credits(u)

\* C3: in every reachable state (whose balances are numbers) the balances plus
\* the commissions recorded on outgoing entries sum to the starting balances.
C3_Conservation ==
    AllNumbers =>
       SetSum(Balances, DOMAIN users) + Commissions = SetSum(start, DOMAIN start)

\* C4: a transfer request whose amount is not a finite number greater than 0
\* is rejected and changes no account; no other operation produces a balance
\* that is not a number, so no stored balance is ever NaN.
C4_InvalidAmountChangesNothing == AllNumbers

\* the outgoing and incoming entries pair up one to one
LedgerPaired ==
    /\ Len(ledger) % 2 = 0
    /\ \A i \in 1..Len(ledger) :
          IF i % 2 = 1
          THEN /\ ledger[i].direction = "outgoing"
               /\ ledger[i + 1].direction = "incoming"
               /\ ledger[i + 1].amount = ledger[i].amount
               /\ ledger[i + 1].user = ledger[i].other_user
               /\ ledger[i + 1].other_user = ledger[i].user
               /\ ledger[i].amount > 0
               /\ \E level \in {"Silver", "Gold", "Platinum"} :
                     ledger[i].commission
                        = round2(ledger[i].amount, commission_for_level(level))
          ELSE ledger[i].commission = 0

\* a step keeps every entry and appends two per committed transfer
LedgerAppendOnly ==
    /\ Len(ledger') >= Len(ledger)
    /\ SubSeq(ledger', 1, Len(ledger)) = ledger
    /\ \A w \in Workers : CommitStep(w) =>
          /\ Len(ledger') = Len(ledger) + 2
          /\ ledger'[Len(ledger) + 1].user = req[w].sender
          /\ ledger'[Len(ledger) + 2].user = req[w].to
          /\ ledger'[Len(ledger) + 1].amount = req[w].amount
    /\ (ledger' # ledger) => \E w \in Workers : CommitStep(w)

\* C5: every committed transfer appends exactly two entries, one outgoing owned
\* by the sender and one incoming owned by the receiver, with equal amount,
\* swapped counterparties, the commission on the outgoing entry and none on the
\* incoming one; the entries pair up one to one in every reachable state, and
\* an entry, once appended, is never modified or removed.
C5_LedgerPairs == [](LedgerPaired) /\ [][LedgerAppendOnly]_vars

\* two transfers are committed, one of them a self-transfer
C5_Witness ==
    /\ Len(ledger) = 4
    /\ ledger[1].user # ledger[2].user
    /\ ledger[3].user = ledger[4].user

\* C6: in every reachable committed state each account's stored tier is
\* tierForPoints of its stored points.
C6_TierMatchesPoints ==
    \A u \in DOMAIN users : users[u].level = recalc_level(users[u].points)

\* C7: an account's points never decrease and its tier never regresses.
C7_PointsMonotone ==
    [][\A u \in DOMAIN users :
          /\ users'[u].points >= users[u].points
          /\ Rank(users'[u].level) >= Rank(users[u].level)]_vars

\* C8: no two cards share an identifier, and every registered account whose
\* registration has ended owns exactly one card.
C8_EveryAccountHasACard ==
    \A u \in DOMAIN users :
       (\A w \in Workers : ~(pc[w] = "register_card" /\ req[w].name = u))
          => Cardinality(CardsOf(u)) = 1

\* C9: only a transfer changes an account's balance, points or tier or the
\* ledger; registration adds one account with the starting balance, no points
\* and tier Base and changes no existing account.
C9_OnlyTransferTouchesMoney ==
    [][/\ \A u \in DOMAIN users :
             (\/ users'[u].balance # users[u].balance
              \/ users'[u].points # users[u].points
              \/ users'[u].level # users[u].level)
                => \E w \in Workers : CommitStep(w)
       /\ (ledger' # ledger) => \E w \in Workers : CommitStep(w)
       /\ \A u \in DOMAIN users' \ DOMAIN users :
             users'[u] = User(START_BALANCE, 0, "Silver")]_vars

\* C10: a committed self-transfer lowers the account's balance by exactly the
\* commission, awards floor(amount / 50) points and appends an outgoing and an
\* incoming entry that the account both owns.
C10_SelfTransfer ==
    [][\A w \in Workers :
         (CommitStep(w) /\ req[w].sender = req[w].to) =>
            LET r == req[w]
                u == r.sender
            IN  /\ users'[u].balance = FSub(users[u].balance, r.commission)
                /\ users'[u].points = users[u].points + floor_points(r.amount)
                /\ Len(ledger') = Len(ledger) + 2
                /\ ledger'[Len(ledger) + 1].user = u
                /\ ledger'[Len(ledger) + 2].user = u]_vars

====
